---- MODULE Spec2Model ----
(***************************************************************************)
(* A model of the sales-report pipeline: the command-line run of           *)
(* mvp_ventas.py (load, date policy, revenue recalculation, Excel and PDF  *)
(* export), the date-policy block of the Streamlit script app/app.py, and  *)
(* the loading, cleaning, validation, sorting and aggregation functions of *)
(* app/core/procesamiento.py.                                              *)
(*                                                                         *)
(* Instants are integer ticks (the int64 nanosecond value pandas uses);    *)
(* NaT is the missing instant.  A table is a record of its column names    *)
(* and its rows; a row of the date-policy model carries its pandas index   *)
(* label and its date cell.                                                *)
(***************************************************************************)
EXTENDS Integers, Sequences, FiniteSets, TLC

VARIABLES
    prog,              \* which program runs: "cli" (mvp_ventas.main), "app" (app.py), "core"
    pc,                \* the position of the run in its script
    args,              \* mvp_ventas.main: the parsed command line
    ui,                \* app.py: the widget values of this rerun
    df,                \* the loaded table (main: df, app.py: df_raw)
    df_after,          \* the table after the date policy
    metrics,           \* main: metrics; app.py: invalid_count / imputed_value
    invalid_dates_df,  \* main: the rows whose date failed to parse, or None
    error,             \* the exception that ended the run, or None
    written,           \* the export artifacts produced so far (sheets, files)
    rev_col,           \* main: the revenue column it settled on
    raw,               \* procesamiento: the table given to limpiar_y_validar
    cat_arg,           \* procesamiento: the col_categoria argument the caller passes
    clean,             \* procesamiento: the table limpiar_y_validar returned
    val,               \* procesamiento: the validation report it returned
    clean2,            \* procesamiento: limpiar_y_validar applied to its own output
    cat,               \* procesamiento: the category summary
    sorted,            \* procesamiento: the table ordenar_datos returned
    sort_order,        \* procesamiento: the input position of each row of sorted
    stream,            \* procesamiento: the byte stream given to cargar_csv
    delimiter,         \* procesamiento: the delimiter argument of cargar_csv
    loaded,            \* procesamiento: the table cargar_csv returned
    meta,              \* procesamiento: the metadata cargar_csv returned
    load_error,        \* procesamiento: the exception cargar_csv raised, or None
    desc,              \* procesamiento: the table describir_dataframe returned
    dtypes_after,      \* main: the type of each column of df_after
    secrets,           \* app.py: st.secrets (LIC_MODE, ACCESS_PASSWORD)
    pwd_ok,            \* app.py: st.session_state["_pwd_ok"]
    gate_ui            \* app.py: the password field and the Enter button of this rerun

runVars == <<args, ui, df, df_after, metrics, invalid_dates_df, error, written, rev_col>>

coreVars == <<raw, cat_arg, clean, val, clean2, cat>>

sortVars == <<sorted, sort_order>>

loadVars == <<stream, delimiter, loaded, meta, load_error>>

gateVars == <<secrets, pwd_ok, gate_ui>>

vars == <<prog, pc, runVars, coreVars, sortVars, loadVars, desc, dtypes_after, gateVars>>

----------------------------------------------------------------------------
(* Bounds of the model *)

\* most rows of a table given to the date policy
MaxRows == 3
\* most rows of a table in the runs that vary the column names
MaxRowsCols == 1
\* most rows of a table given to limpiar_y_validar
MaxCoreRows == 2
\* most rows of a table given to ordenar_datos
MaxSortRows == 2
\* most bytes of a stream given to cargar_csv
MaxBytes == 4
\* the bytes cargar_csv reads ahead of the stream (65536 in the source, scaled
\* to the streams of the model)
SampleLen == 2
\* most delimiter-relevant characters in the sampled prefix
MaxSample == 3
\* most rows of a stream with one date column
MaxDateRows == 5
\* most rows of a stream with two date columns
MaxDateRowsCols == 2

----------------------------------------------------------------------------
(* Values *)

None == "None"

\* the missing instant (pandas NaT), what errors="coerce" yields
NaT == -1

\* the texts a date cell can hold in the model
RawDates == {"2024-01-02", "2024-01-04", "2024-01-12", "n/a"}

\* pd.to_datetime(s, errors="coerce") on one text: its instant, or NaT
to_datetime(s) ==
    CASE s = "2022-01-01" -> 10
      [] s = "2023-01-01" -> 20
      [] s = "2024-01-02" -> 32
      [] s = "2024-01-03" -> 33
      [] s = "2024-01-04" -> 34
      [] s = "2024-01-12" -> 42
      [] OTHER -> NaT

isna(v) == v = NaT

\* an optional instant: Unset is Python's None, Some(v) a value (NaT included)
Unset == <<>>
Some(v) == <<v>>

\* the table a run that raised never produced
NoTable == [columns |-> {}, rows |-> <<>>]

----------------------------------------------------------------------------
(* Sequences *)

\* df.loc[mask] is SelectSeq(rows, mask): the rows satisfying the mask, in their order

RECURSIVE Insert(_, _)
Insert(x, s) ==
    IF s = <<>> THEN <<x>>
    ELSE IF x <= Head(s) THEN <<x>> \o s
         ELSE <<Head(s)>> \o Insert(x, Tail(s))

RECURSIVE SortInts(_)
SortInts(s) == IF s = <<>> THEN <<>> ELSE Insert(Head(s), SortInts(Tail(s)))

RECURSIVE SumInts(_)
SumInts(s) == IF s = <<>> THEN 0 ELSE Head(s) + SumInts(Tail(s))

\* Series.median() of int64 ticks, converted back by pd.to_datetime (the median
\* of no value is NaN, which converts to NaT)
median(s) ==
    LET o == SortInts(s)
        n == Len(o)
    IN  IF n = 0 THEN NaT
        ELSE IF n % 2 = 1 THEN o[(n + 1) \div 2]
        ELSE (o[n \div 2] + o[n \div 2 + 1]) \div 2

\* Series.mean() of int64 ticks, converted back by pd.to_datetime
mean(s) == IF s = <<>> THEN NaT ELSE SumInts(s) \div Len(s)

----------------------------------------------------------------------------
(* mvp_ventas.py *)

\* the first of the names that is a column of the table, or None
_pick(columns, names) ==
    LET hits == {i \in 1..Len(names) : names[i] # None /\ names[i] \in columns}
    IN  IF hits = {} THEN None
        ELSE names[CHOOSE i \in hits : \A j \in hits : i <= j]

\* the date column parsed: df[col_fecha] = _to_datetime_safe(df[col_fecha])
ParseDates(rows) ==
    [i \in 1..Len(rows) |-> [index |-> rows[i].index, fecha |-> to_datetime(rows[i].fecha)]]

\* a fill that overwrites every date cell, not only the missing ones
FillNaT_every(rows, value) ==
    [i \in 1..Len(rows) |-> [rows[i] EXCEPT !.fecha = value]]

\* df.loc[df[col].isna(), col] = value
FillNaT(rows, value) ==
    [i \in 1..Len(rows) |->
        IF isna(rows[i].fecha) THEN [rows[i] EXCEPT !.fecha = value] ELSE rows[i]]

\* a mask that keeps every row
ValidRow_all(r) == TRUE

\* the mask ~df[col].isna()
ValidRow(r) == ~isna(r.fecha)

\* the mask df[col].isna()
InvalidRow(r) == isna(r.fecha)

\* a guard that lets the median of no value through
HasValid_always(valid) == TRUE

\* not valid.empty
HasValid(valid) == valid # <<>>

\* a column check that accepts every name
ColumnMissing_never(col, columns) == FALSE

\* col_fecha not in df.columns
ColumnMissing(col, columns) == col \notin columns

\* the valid instants of the date column
ValidDates(rows) ==
    LET v == SelectSeq(rows, ValidRow) IN [i \in 1..Len(v) |-> v[i].fecha]

Raise(msg) ==
    [raised |-> TRUE, error |-> msg, df |-> NoTable,
     metrics_date |-> [nat_before |-> 0, policy |-> "NONE", impute_value_used |-> Unset],
     invalid_dates_df |-> NoTable]

\* the branch of aplicar_politica_fecha taken after the dates are parsed
ImputeBranch(parsed, impute_mode, impute_const) ==
    LET valid == ValidDates(parsed) IN
    CASE impute_mode = "median" ->
            IF HasValid(valid)
            THEN [raised |-> FALSE, rows |-> FillNaT(parsed, median(valid)),
                  used |-> Some(median(valid))]
            ELSE [raised |-> FALSE, rows |-> parsed, used |-> Unset]
      [] impute_mode = "mean" ->
            IF HasValid(valid)
            THEN [raised |-> FALSE, rows |-> FillNaT(parsed, mean(valid)),
                  used |-> Some(mean(valid))]
            ELSE [raised |-> FALSE, rows |-> parsed, used |-> Unset]
      [] impute_mode = "const" ->
            IF impute_const = None \/ impute_const = ""
            THEN [raised |-> TRUE, rows |-> parsed, used |-> Unset]
            ELSE [raised |-> FALSE,
                  rows |-> FillNaT(parsed, to_datetime(impute_const)),
                  used |-> Some(to_datetime(impute_const))]
      [] OTHER -> [raised |-> TRUE, rows |-> parsed, used |-> Unset]

\* aplicar_politica_fecha(df, col_fecha, drop_nat, impute_mode, impute_const)
aplicar_politica_fecha(d, col_fecha, drop_nat, impute_mode, impute_const) ==
    IF ColumnMissing(col_fecha, d.columns)
    THEN Raise("ValueError: no existe la columna de fecha")
    ELSE
      LET parsed     == ParseDates(d.rows)
          nat_before == Len(SelectSeq(parsed, InvalidRow))
          invalid    == IF nat_before > 0
                        THEN [columns |-> d.columns,
                              rows |-> SelectSeq(d.rows,
                                         LAMBDA r : isna(to_datetime(r.fecha)))]
                        ELSE NoTable
      IN
      IF drop_nat /\ nat_before > 0
      THEN [raised |-> FALSE, error |-> None,
            df |-> [columns |-> d.columns, rows |-> SelectSeq(parsed, ValidRow)],
            metrics_date |-> [nat_before |-> nat_before, policy |-> "DROP",
                              impute_value_used |-> Unset],
            invalid_dates_df |-> invalid]
      ELSE IF impute_mode # None
      THEN LET b == ImputeBranch(parsed, impute_mode, impute_const) IN
           IF b.raised
           THEN Raise(IF impute_mode = "const"
                      THEN "ValueError: debes indicar --impute-const"
                      ELSE "ValueError: impute-mode invalido")
           ELSE [raised |-> FALSE, error |-> None,
                 df |-> [columns |-> d.columns, rows |-> b.rows],
                 metrics_date |-> [nat_before |-> nat_before,
                                   policy |-> "IMPUTE(" \o impute_mode \o ")",
                                   impute_value_used |-> b.used],
                 invalid_dates_df |-> invalid]
      ELSE [raised |-> FALSE, error |-> None,
            df |-> [columns |-> d.columns, rows |-> parsed],
            metrics_date |-> [nat_before |-> nat_before, policy |-> "NONE",
                              impute_value_used |-> Unset],
            invalid_dates_df |-> invalid]

\* argparse's mutually exclusive group: --drop-nat-dates and --impute-date
\* are never both given (neither is allowed)
MutuallyExclusive(a) == ~(a.drop_nat /\ a.impute_mode # None)

\* main's revenue recalculation: the column it settles on and the columns
\* of df_after afterwards (the cell arithmetic is not part of the model)
RevenueRecalc(columns, col_revenue) ==
    LET rev == _pick(columns, <<col_revenue, "revenue", "Ingreso_Mensual">>) IN
    IF {"unit_price", "quantity"} \subseteq columns /\ rev = None
    THEN [rev_col |-> "revenue", columns |-> columns \cup {"revenue"}]
    ELSE [rev_col |-> rev, columns |-> columns]

\* the column types of the table cargar_csv (dtype=str) loaded, after
\* aplicar_politica_fecha parsed the date column of its copy
PolicyDtypes(columns, col_fecha) ==
    [c \in columns |-> IF c = col_fecha THEN "datetime64" ELSE "object"]

\* df_after["revenue"] = revenue_calc: a new numeric column when main creates it
RevenueDtypes(dtypes, columns) ==
    [c \in columns |-> IF c \in DOMAIN dtypes THEN dtypes[c] ELSE "number"]

\* df_limpio[rev_col] = _to_numeric_safe(df_limpio[rev_col]), on the table
\* exportar_excel was given
ExcelDtypes(dtypes, col_revenue) ==
    LET rev == _pick(DOMAIN dtypes, <<col_revenue, "revenue", "Ingreso_Mensual">>)
    IN  IF rev = None THEN dtypes ELSE [dtypes EXCEPT ![rev] = "number"]

\* the sheets exportar_excel writes
ExcelSheets(columns, invalid, col_region, col_categoria, col_revenue) ==
    LET rev == _pick(columns, <<col_revenue, "revenue", "Ingreso_Mensual">>)
        catc == _pick(columns, <<col_categoria, "category", "Categoria">>)
        regc == _pick(columns, <<col_region, "region", "Region">>)
    IN  {"datos_limpios", "Metrics"}
        \cup (IF invalid # NoTable /\ invalid.rows # <<>> THEN {"FechasInvalidas"} ELSE {})
        \cup (IF catc # None /\ rev # None THEN {"ResumenCategoria"} ELSE {})
        \cup (IF rev # None
              THEN (IF regc # None THEN {"ResumenRegion"} ELSE {"ResumenGlobal"})
              ELSE {})
        \cup (IF {"product_id", "product_name"} \subseteq columns /\ rev # None
              THEN {"TopProductos"} ELSE {})

----------------------------------------------------------------------------
(* app/app.py *)

\* the constant-date widget: st.date_input(value=datetime(2023, 1, 1)) returns
\* the date the user picked, or its value when the user picked none
ConstDateStr(policy, picked) ==
    IF policy = "const"
    THEN (IF picked = None THEN "2023-01-01" ELSE picked)
    ELSE None

\* the script's "Handle invalid dates" block
app_date_policy(d, policy, const_date_str) ==
    LET parsed        == ParseDates(d.rows)
        invalid_count == Len(SelectSeq(parsed, InvalidRow))
        valid         == ValidDates(parsed)
    IN
    CASE policy = "drop" ->
            [df_after |-> [columns |-> d.columns, rows |-> SelectSeq(parsed, ValidRow)],
             invalid_count |-> invalid_count, imputed_value |-> Unset]
      [] policy = "median" ->
            IF invalid_count > 0 /\ HasValid(valid)
            THEN [df_after |-> [columns |-> d.columns,
                                rows |-> FillNaT(parsed, median(valid))],
                  invalid_count |-> invalid_count,
                  imputed_value |-> Some(median(valid))]
            ELSE [df_after |-> [columns |-> d.columns, rows |-> parsed],
                  invalid_count |-> invalid_count, imputed_value |-> Unset]
      [] policy = "const" ->
            LET v == IF const_date_str # None /\ const_date_str # ""
                     THEN to_datetime(const_date_str)
                     ELSE to_datetime("2022-01-01")
            IN  [df_after |-> [columns |-> d.columns, rows |-> FillNaT(parsed, v)],
                 invalid_count |-> invalid_count, imputed_value |-> Some(v)]
      [] OTHER ->
            [df_after |-> [columns |-> d.columns, rows |-> parsed],
             invalid_count |-> invalid_count, imputed_value |-> Unset]

----------------------------------------------------------------------------
(* app/core/procesamiento.py: cells, headers and tables *)

\* a cell: a text, a number, a boolean, or the missing marker (NaN, NA)
Str(t) == <<"str", t>>
Num(n) == <<"num", n>>
Bool(b) == <<"bool", b>>
\* an instant in a column of dtype datetime64
Date(n) == <<"date", n>>
NaN == <<"nan">>

IsNaN(c) == c = NaN
IsNum(c) == c[1] = "num"

\* A header is the sequence of its words and separator characters:
\* "Ingreso_Mensual" is <<"Ingreso", "_", "Mensual">>.
IsSpace(t) == t \in {" ", "\t", "\n"}

RECURSIVE lstrip(_)
lstrip(h) == IF h # <<>> /\ IsSpace(Head(h)) THEN lstrip(Tail(h)) ELSE h

Reverse(h) == [i \in 1..Len(h) |-> h[Len(h) + 1 - i]]

\* str.strip()
strip(h) == Reverse(lstrip(Reverse(lstrip(h))))

\* str.replace(a, b)
replace(h, a, b) == [i \in 1..Len(h) |-> IF h[i] = a THEN b ELSE h[i]]

\* c.strip().replace(" ", "_").replace("\t", " ").replace("\n", " ")
NormalizeHeader(c) ==
    replace(replace(replace(strip(c), " ", "_"), "\t", " "), "\n", " ")

\* the position of the column of that name, 0 when there is none
ColPos(columns, name) ==
    IF \E i \in 1..Len(columns) : columns[i] = name
    THEN CHOOSE i \in 1..Len(columns) :
            columns[i] = name /\ \A j \in 1..(i - 1) : columns[j] # name
    ELSE 0

NumVal(t) == CASE t = "0" -> 0 [] t = "130" -> 130 [] OTHER -> 0

\* pd.to_numeric(errors="coerce") on one cell
to_numeric(c) ==
    IF IsNum(c) THEN c
    ELSE IF c[1] = "str" /\ c[2] \in {"0", "130"} THEN Num(NumVal(c[2]))
    ELSE IF c[1] = "bool" THEN Num(IF c[2] THEN 1 ELSE 0)
    ELSE NaN

\* astype(str).str.strip().str.lower().map(m).astype("boolean") on one cell
to_boolean(c) ==
    LET t == CASE c[1] = "str" -> c[2]
               [] c[1] = "bool" -> (IF c[2] THEN "true" ELSE "false")
               [] c[1] = "num" -> (IF c[2] = 0 THEN "0" ELSE IF c[2] = 1 THEN "1" ELSE "other")
               [] OTHER -> "nan"
    IN  IF t \in {"true", "1", "t", "yes", "y", "si"} THEN Bool(TRUE)
        ELSE IF t \in {"false", "0", "f", "no"} THEN Bool(FALSE)
        ELSE NaN

Name_ID == <<"ID">>
Name_Edad == <<"Edad">>
Name_Ingreso == <<"Ingreso", "_", "Mensual">>
Name_Puntaje == <<"Puntaje">>
Name_Suscripcion == <<"Suscripcion", "_", "Activa">>
Name_Categoria == <<"Categoria">>

NumericNames == {Name_ID, Name_Edad, Name_Ingreso, Name_Puntaje}

\* the cell of a row in the column of that name
Cell(t, r, name) == r.cells[ColPos(t.columns, name)]

HasCol(t, name) == ColPos(t.columns, name) # 0


\* df.head(n)
head(rows, n) == IF Len(rows) <= n THEN rows ELSE SubSeq(rows, 1, n)

\* the cap on the sample of rows with a missing field
NanCap == 50

RowHasNaN(r) == \E k \in 1..Len(r.cells) : IsNaN(r.cells[k])
RowAllNaN(r) == \A k \in 1..Len(r.cells) : IsNaN(r.cells[k])

\* df.dropna(how="all")
dropna_all(rows) == SelectSeq(rows, LAMBDA r : ~RowAllNaN(r))

RECURSIVE drop_duplicates(_, _)
\* df.drop_duplicates(): the first row of each value is kept
drop_duplicates(rows, seen) ==
    IF rows = <<>> THEN <<>>
    ELSE IF Head(rows).cells \in seen THEN drop_duplicates(Tail(rows), seen)
         ELSE <<Head(rows)>> \o drop_duplicates(Tail(rows), seen \cup {Head(rows).cells})

\* df.reset_index(drop=True)
reset_index(rows) == [i \in 1..Len(rows) |-> [index |-> i - 1, cells |-> rows[i].cells]]

\* dropna(how="all"), drop_duplicates(), reset_index(drop=True)
CleanRows(rows) == reset_index(drop_duplicates(dropna_all(rows), {}))

\* a validation entry: the literal OK, or the sub-table of the flagged rows
OK == [ok |-> TRUE, rows |-> <<>>]
\* the entry when it is assigned without the test of dup.empty
Entry_always(rows) == [ok |-> FALSE, rows |-> rows]
Entry(rows) == IF rows = <<>> THEN OK ELSE [ok |-> FALSE, rows |-> rows]

\* limpiar_y_validar(df): the clean table and the validation report
limpiar_y_validar(t) ==
    LET columns == [k \in 1..Len(t.columns) |-> NormalizeHeader(t.columns[k])]
        coerce(k, c) ==
            IF columns[k] \in NumericNames THEN to_numeric(c)
            ELSE IF columns[k] = Name_Suscripcion THEN to_boolean(c)
            ELSE c
        dtypes == [k \in 1..Len(columns) |->
                     IF columns[k] \in NumericNames THEN "number"
                     ELSE IF columns[k] = Name_Suscripcion THEN "boolean"
                     ELSE t.dtypes[k]]
        rows == [i \in 1..Len(t.rows) |->
                   [index |-> t.rows[i].index,
                    cells |-> [k \in 1..Len(columns) |-> coerce(k, t.rows[i].cells[k])]]]
        d == [columns |-> columns, dtypes |-> dtypes, rows |-> rows]
        dup == IF HasCol(d, Name_ID)
               THEN SelectSeq(d.rows, LAMBDA r : \E q \in 1..Len(rows) :
                             rows[q].index # r.index /\ Cell(d, rows[q], Name_ID) = Cell(d, r, Name_ID))
               ELSE <<>>
        bad == IF HasCol(d, Name_Edad)
               THEN SelectSeq(d.rows, LAMBDA r : IsNum(Cell(d, r, Name_Edad))
                             /\ (Cell(d, r, Name_Edad)[2] < 0 \/ Cell(d, r, Name_Edad)[2] > 120))
               ELSE <<>>
        inv == IF HasCol(d, Name_Ingreso)
               THEN SelectSeq(d.rows, LAMBDA r : IsNaN(Cell(d, r, Name_Ingreso))
                             \/ (IsNum(Cell(d, r, Name_Ingreso)) /\ Cell(d, r, Name_Ingreso)[2] <= 0))
               ELSE <<>>
        nan_rows == head(SelectSeq(d.rows, RowHasNaN), NanCap)
    IN  [df |-> [columns |-> columns, dtypes |-> dtypes, rows |-> CleanRows(rows)],
         val |-> [duplicados_por_id |-> Entry(dup), edades_fuera |-> Entry(bad),
                  ingresos_invalidos |-> Entry(inv), filas_nan |-> Entry(nan_rows)]]

----------------------------------------------------------------------------
(* app/core/procesamiento.py: the category summary *)

\* a statistic is NaN or an exact fraction <<"q", numerator, denominator>>
Q(n, d) == <<"q", n, d>>

\* the sum of two statistics as Series.sum does it: NaN is skipped
QAdd(a, b) ==
    IF IsNaN(a) THEN b
    ELSE IF IsNaN(b) THEN a
    ELSE Q(a[2] * b[3] + b[2] * a[3], a[3] * b[3])

RECURSIVE QSum(_)
QSum(qs) == IF qs = <<>> THEN Q(0, 1) ELSE QAdd(Head(qs), QSum(Tail(qs)))

\* the order of the group keys: texts in lexicographic order, the missing
\* key (dropna=False) last
CatRank(c) ==
    CASE c = Str("A") -> 1
      [] c = Str("B") -> 2
      [] c = Str("TOTAL") -> 3
      [] c = NaN -> 9
      [] OTHER -> 5

RECURSIVE SortKeys(_)
SortKeys(K) ==
    IF K = {} THEN <<>>
    ELSE LET m == CHOOSE c \in K : \A e \in K : CatRank(c) <= CatRank(e)
         IN  <<m>> \o SortKeys(K \ {m})

\* a resolution that takes the first column when nothing else resolves
ResolveCategory_first(columns, col_categoria) ==
    IF col_categoria # <<>> /\ ColPos(columns, col_categoria) # 0 THEN col_categoria
    ELSE IF ColPos(columns, Name_Categoria) # 0 THEN Name_Categoria
    ELSE IF columns # <<>> THEN columns[1]
    ELSE <<>>

\* col_categoria if it is given and a column, else "Categoria" if that is a
\* column, else nothing (<<>>)
ResolveCategory(columns, col_categoria) ==
    IF col_categoria # <<>> /\ ColPos(columns, col_categoria) # 0 THEN col_categoria
    ELSE IF ColPos(columns, Name_Categoria) # 0 THEN Name_Categoria
    ELSE <<>>

\* the numeric values of a column within the rows of one group
GroupValues(rows, k) ==
    LET present == SelectSeq(rows, LAMBDA r : IsNum(r.cells[k]))
    IN  [i \in 1..Len(present) |-> present[i].cells[k][2]]

\* statistics that take the first value of the group for its sum
GroupStats_first(rows, k) ==
    LET v == GroupValues(rows, k)
        o == SortInts(v)
        n == Len(v)
    IN  [sum |-> IF n = 0 THEN Q(0, 1) ELSE Q(v[1], 1),
         mean |-> IF n = 0 THEN NaN ELSE Q(SumInts(v), n),
         median |-> IF n = 0 THEN NaN
                    ELSE IF n % 2 = 1 THEN Q(o[(n + 1) \div 2], 1)
                    ELSE Q(o[n \div 2] + o[n \div 2 + 1], 2)]

\* sum, mean and median of one numeric column within one group
GroupStats(rows, k) ==
    LET v == GroupValues(rows, k)
        o == SortInts(v)
        n == Len(v)
    IN  [sum |-> Q(SumInts(v), 1),
         mean |-> IF n = 0 THEN NaN ELSE Q(SumInts(v), n),
         median |-> IF n = 0 THEN NaN
                    ELSE IF n % 2 = 1 THEN Q(o[(n + 1) \div 2], 1)
                    ELSE Q(o[n \div 2] + o[n \div 2 + 1], 2)]

\* a group size that forgets the rows whose category is missing
GroupSize_dropna(rows, key) == IF IsNaN(key) THEN 0 ELSE Len(rows)

\* g.size() of one group
GroupSize(rows, key) == Len(rows)

RECURSIVE InsertByCount(_, _)
InsertByCount(g, s) ==
    IF s = <<>> THEN <<g>>
    ELSE IF g.conteo >= Head(s).conteo THEN <<g>> \o s
         ELSE <<Head(s)>> \o InsertByCount(g, Tail(s))

RECURSIVE SortByCount(_)
\* out.sort_values("conteo", ascending=False); groups of equal count keep the
\* order of their keys
SortByCount(s) ==
    IF s = <<>> THEN <<>>
    ELSE InsertByCount(s[Len(s)], SortByCount(SubSeq(s, 1, Len(s) - 1)))

\* the label the synthetic last row is given
TotalLabel == Str("TOTAL")

\* agrupar_por_categoria(df, col_categoria)
agrupar_por_categoria(t, col_categoria) ==
    LET cat_col == ResolveCategory(t.columns, col_categoria) IN
    IF cat_col = <<>>
    THEN [placeholder |-> TRUE, columns |-> {"nota"}, rows |-> <<>>,
          nota |-> <<"No se especifico columna de categoria valida.">>]
    ELSE
      LET pos   == ColPos(t.columns, cat_col)
          nums  == {k \in 1..Len(t.columns) : t.dtypes[k] = "number"}
          keys  == SortKeys({t.rows[i].cells[pos] : i \in 1..Len(t.rows)})
          of(c) == SelectSeq(t.rows, LAMBDA r : r.cells[pos] = c)
          sizes == [i \in 1..Len(keys) |-> GroupSize(of(keys[i]), keys[i])]
          total == SumInts(sizes)
          den   == IF total # 0 THEN total ELSE 1
          out   == [i \in 1..Len(keys) |->
                      [label |-> keys[i],
                       conteo |-> sizes[i],
                       porcentaje |-> Q(sizes[i], den),
                       stats |-> [k \in nums |-> GroupStats(of(keys[i]), k)]]]
          total_row ==
              [label |-> TotalLabel,
               conteo |-> SumInts([i \in 1..Len(out) |-> out[i].conteo]),
               porcentaje |-> QSum([i \in 1..Len(out) |-> out[i].porcentaje]),
               stats |-> [k \in nums |->
                            [sum |-> QSum([i \in 1..Len(out) |-> out[i].stats[k].sum]),
                             mean |-> QSum([i \in 1..Len(out) |-> out[i].stats[k].mean]),
                             median |-> QSum([i \in 1..Len(out) |-> out[i].stats[k].median])]]]
      IN  [placeholder |-> FALSE,
           columns |-> {"Categoria", "conteo", "porcentaje"},
           rows |-> SortByCount(out) \o <<total_row>>,
           nota |-> <<>>]

----------------------------------------------------------------------------
(* app/core/procesamiento.py: the descriptive statistics *)

\* the present values of a column of numbers or instants, in row order
ColumnValues(t, k) ==
    LET present == SelectSeq(t.rows, LAMBDA r : ~IsNaN(r.cells[k]))
    IN  [i \in 1..Len(present) |-> present[i].cells[k][2]]

RECURSIVE SumSquares(_)
SumSquares(v) == IF v = <<>> THEN 0 ELSE Head(v) * Head(v) + SumSquares(Tail(v))

\* Series.quantile(num / 4) with linear interpolation, o being the sorted values
Quantile(o, num) ==
    LET n == Len(o)
        lo == (num * (n - 1)) \div 4
        rem == (num * (n - 1)) % 4
    IN  IF n = 0 THEN NaN
        ELSE IF rem = 0 THEN Q(4 * o[lo + 1], 4)
        ELSE Q(4 * o[lo + 1] + rem * (o[lo + 2] - o[lo + 1]), 4)

\* the difference of two statistics, NaN when one is
QSub(a, b) ==
    IF IsNaN(a) \/ IsNaN(b) THEN NaN
    ELSE Q(a[2] * b[3] - b[2] * a[3], a[3] * b[3])

\* Series.mean()
SeriesMean(v) == IF v = <<>> THEN NaN ELSE Q(SumInts(v), Len(v))

\* the square of Series.std() (ddof=1): missing below two values
SeriesVar(v) ==
    LET n == Len(v) IN
    IF n < 2 THEN NaN
    ELSE Q(n * SumSquares(v) - SumInts(v) * SumInts(v), n * (n - 1))

\* (std / mean) if mean not in (0, None, np.nan) else np.nan; a quotient that
\* is not zero is kept as its sign and its square
CoefVar(v) ==
    LET m == SeriesMean(v)
        var == SeriesVar(v)
    IN  IF IsNaN(m) \/ m[2] = 0 THEN NaN
        ELSE IF IsNaN(var) THEN NaN
        ELSE IF var[2] = 0 THEN Q(0, 1)
        ELSE <<"root", IF m[2] > 0 THEN 1 ELSE 0 - 1,
               var[2] * m[3] * m[3], var[3] * m[2] * m[2]>>

\* describir_dataframe(df): one row per column with its count, mean, date
\* range, interquartile range and coefficient of variation (the age of the
\* dates, which reads the clock, is left out)
describir_dataframe(t) ==
    [k \in 1..Len(t.columns) |->
        LET v == ColumnValues(t, k)
            o == SortInts(v)
            number == t.dtypes[k] = "number"
            date == t.dtypes[k] = "datetime" /\ v # <<>>
        IN  [columna |-> t.columns[k],
             count |-> Len(SelectSeq(t.rows, LAMBDA r : ~IsNaN(r.cells[k]))),
             mean |-> IF number THEN SeriesMean(v) ELSE NaN,
             min_fecha |-> IF date THEN Date(o[1]) ELSE NaN,
             mediana_fecha |-> IF date THEN Date(median(v)) ELSE NaN,
             max_fecha |-> IF date THEN Date(o[Len(o)]) ELSE NaN,
             iqr |-> IF number THEN QSub(Quantile(o, 3), Quantile(o, 1)) ELSE NaN,
             cv |-> IF number THEN CoefVar(v) ELSE NaN]]

----------------------------------------------------------------------------
(* app/core/procesamiento.py: the sort *)

Name_Fecha_Registro == <<"Fecha", "_", "Registro">>

\* the temporary sort-key columns
S0 == <<"__s0">>
S1 == <<"__s1">>
S2 == <<"__s2">>
S3 == <<"__s3">>
S4 == <<"__s4">>

\* the column of that name, one cell per row
Column(t, name) == [i \in 1..Len(t.rows) |-> Cell(t, t.rows[i], name)]

\* df[name] = vals: an existing column of that name is overwritten in place,
\* otherwise the column is appended
SetColumn(t, name, dtype, vals) ==
    LET k == ColPos(t.columns, name) IN
    IF k # 0
    THEN [columns |-> t.columns,
          dtypes |-> [t.dtypes EXCEPT ![k] = dtype],
          rows |-> [i \in 1..Len(t.rows) |->
                      [index |-> t.rows[i].index,
                       cells |-> [t.rows[i].cells EXCEPT ![k] = vals[i]]]]]
    ELSE [columns |-> Append(t.columns, name),
          dtypes |-> Append(t.dtypes, dtype),
          rows |-> [i \in 1..Len(t.rows) |->
                      [index |-> t.rows[i].index,
                       cells |-> Append(t.rows[i].cells, vals[i])]]]

\* the positions 1..n of a sequence that satisfy keep, in order
RECURSIVE KeptPositions(_, _)
KeptPositions(n, keep) ==
    IF n = 0 THEN <<>>
    ELSE IF n \in keep THEN Append(KeptPositions(n - 1, keep), n)
         ELSE KeptPositions(n - 1, keep)

\* df.drop(columns=names)
DropColumns(t, names) ==
    LET pos == KeptPositions(Len(t.columns),
                             {k \in 1..Len(t.columns) : t.columns[k] \notin names})
    IN  [columns |-> [j \in 1..Len(pos) |-> t.columns[pos[j]]],
         dtypes |-> [j \in 1..Len(pos) |-> t.dtypes[pos[j]]],
         rows |-> [i \in 1..Len(t.rows) |->
                     [index |-> t.rows[i].index,
                      cells |-> [j \in 1..Len(pos) |-> t.rows[i].cells[pos[j]]]]]]

\* s.astype("string") on one cell
astype_string(c) ==
    CASE IsNaN(c) -> NaN
      [] c[1] = "str" -> c
      [] c[1] = "bool" -> Str(IF c[2] THEN "True" ELSE "False")
      [] OTHER -> Str(ToString(c[2]))

\* an order of the flag that puts False first
_orden_bool_false_first(c) == Num(IF c = Bool(FALSE) THEN 0 ELSE 1)

\* _orden_bool_true_first on one cell: True -> 0, False -> 1, NA -> 1
_orden_bool_true_first(c) == Num(IF c = Bool(TRUE) THEN 0 ELSE 1)

\* -pd.to_numeric(s, errors="coerce") on one cell
neg_numeric(c) ==
    LET n == to_numeric(c) IN IF IsNum(n) THEN Num(0 - n[2]) ELSE NaN

\* pd.to_datetime(s, errors="coerce") on one cell of a parsed date column
to_datetime_cell(c) == IF c[1] = "date" THEN c ELSE NaN

\* a rank that puts the missing key first
KeyRank_nafirst(c) ==
    IF IsNaN(c) THEN <<0 - 1, 0>>
    ELSE IF c[1] = "str" THEN <<0, CatRank(c)>>
    ELSE <<0, c[2]>>

\* the rank of a key cell under ascending=True, na_position="last": missing
\* after present, texts in lexicographic order, numbers and instants by value
KeyRank(c) ==
    IF IsNaN(c) THEN <<1, 0>>
    ELSE IF c[1] = "str" THEN <<0, CatRank(c)>>
    ELSE <<0, c[2]>>

RankLess(x, y) == x[1] < y[1] \/ (x[1] = y[1] /\ x[2] < y[2])

\* the order of two rows by their keys, the first key first
LexLess(a, b) ==
    \E k \in 1..Len(a) : (\A j \in 1..(k - 1) : a[j] = b[j]) /\ RankLess(a[k], b[k])

\* df.sort_values(by=sort_cols, ascending=True, na_position="last"): the
\* orders it can return, each as the input positions in output order.  With
\* two keys or more pandas sorts with a stable lexsort; with a single key it
\* sorts the present keys with kind="quicksort", which leaves the order of
\* equal keys open, and appends the rows of a missing key in input order.
sort_values(t, sort_cols) ==
    LET n == Len(t.rows)
        key == [i \in 1..n |->
                  [k \in 1..Len(sort_cols) |-> KeyRank(Cell(t, t.rows[i], sort_cols[k]))]]
    IN  {p \in Permutations(1..n) :
            \A i, j \in 1..n : i < j =>
                /\ ~LexLess(key[p[j]], key[p[i]])
                /\ (key[p[i]] = key[p[j]] /\ (Len(sort_cols) > 1 \/ key[p[i]][1][1] = 1))
                   => p[i] < p[j]}

\* ordenar_datos(df, col_categoria): the tables it can return, each with the
\* input position of its rows
ordenar_datos(t, col_categoria) ==
    LET n == Len(t.rows)
        cat_col == ResolveCategory(t.columns, col_categoria)
        has0 == cat_col # <<>>
        d0 == IF has0
              THEN SetColumn(t, S0, "string",
                             [i \in 1..n |-> astype_string(Column(t, cat_col)[i])])
              ELSE t
        has1 == HasCol(d0, Name_Suscripcion)
        d1 == IF has1
              THEN SetColumn(d0, S1, "number",
                             [i \in 1..n |-> _orden_bool_true_first(Column(d0, Name_Suscripcion)[i])])
              ELSE d0
        has2 == HasCol(d1, Name_Puntaje)
        d2 == IF has2
              THEN SetColumn(d1, S2, "number",
                             [i \in 1..n |-> neg_numeric(Column(d1, Name_Puntaje)[i])])
              ELSE d1
        has3 == HasCol(d2, Name_Ingreso)
        d3 == IF has3
              THEN SetColumn(d2, S3, "number",
                             [i \in 1..n |-> neg_numeric(Column(d2, Name_Ingreso)[i])])
              ELSE d2
        has4 == HasCol(d3, Name_Fecha_Registro)
        d4 == IF has4
              THEN SetColumn(d3, S4, "datetime",
                             [i \in 1..n |-> to_datetime_cell(Column(d3, Name_Fecha_Registro)[i])])
              ELSE d3
        sort_cols == (IF has0 THEN <<S0>> ELSE <<>>) \o (IF has1 THEN <<S1>> ELSE <<>>)
                     \o (IF has2 THEN <<S2>> ELSE <<>>) \o (IF has3 THEN <<S3>> ELSE <<>>)
                     \o (IF has4 THEN <<S4>> ELSE <<>>)
        dropped == DropColumns(d4, {sort_cols[k] : k \in 1..Len(sort_cols)})
    IN  IF sort_cols = <<>>
        THEN {[df |-> [columns |-> t.columns, dtypes |-> t.dtypes, rows |-> reset_index(t.rows)],
               order |-> [i \in 1..n |-> i]]}
        ELSE {[df |-> [columns |-> dropped.columns, dtypes |-> dropped.dtypes,
                       rows |-> reset_index([i \in 1..n |-> dropped.rows[p[i]]])],
               order |-> p] : p \in sort_values(d4, sort_cols)}

----------------------------------------------------------------------------
(* The inputs of a run *)

\* the rows of a loaded table: index labels 0.. and a date text each
RowsUpTo(n) ==
    UNION {[1..k -> RawDates] : k \in 0..n}

MkRows(dates) == [i \in 1..Len(dates) |-> [index |-> i - 1, fecha |-> dates[i]]]

StdColumns == {"order_date", "category", "region", "revenue"}

ColumnSets ==
    { StdColumns,
      {"order_date", "Categoria", "Ingreso_Mensual"},
      {"order_date", "unit_price", "quantity"},
      {"order_date", "product_id", "product_name", "revenue"} }

PolicyArgs ==
    {a \in [drop_nat : BOOLEAN, impute_mode : {None, "median", "mean", "const"},
            impute_const : {None, "2024-01-03", "n/a"}] : MutuallyExclusive(a)}

NameArgs ==
    [col_fecha : {"order_date", "Fecha_Registro"},
     col_categoria : {"category", "segment"},
     col_region : {"region", "zona"},
     col_revenue : {None, "importe"}]

StdNames ==
    [col_fecha |-> "order_date", col_categoria |-> "category",
     col_region |-> "region", col_revenue |-> None]

MkArgs(p, n) ==
    [drop_nat |-> p.drop_nat, impute_mode |-> p.impute_mode,
     impute_const |-> p.impute_const, col_fecha |-> n.col_fecha,
     col_categoria |-> n.col_categoria, col_region |-> n.col_region,
     col_revenue |-> n.col_revenue]

NoArgs == MkArgs([drop_nat |-> FALSE, impute_mode |-> None, impute_const |-> None], StdNames)

UiSet == [policy : {"drop", "median", "const"}, picked : {None, "2024-01-03"}]

NoUi == [policy |-> None, picked |-> None]

NoMetrics == [nat_before |-> 0, policy |-> "NONE", impute_value_used |-> Unset]

NoCoreTable == [columns |-> <<>>, dtypes |-> <<>>, rows |-> <<>>]

NoVal == [duplicados_por_id |-> OK, edades_fuera |-> OK, ingresos_invalidos |-> OK,
          filas_nan |-> OK]

NoSummary == [placeholder |-> TRUE, columns |-> {}, rows |-> <<>>, nota |-> <<>>]

NoStream == [bytes |-> <<>>, sample |-> <<>>, sniffed |-> None,
             columns |-> <<>>, rows |-> <<>>]

NoMeta == [delimiter |-> None, encoding |-> None]

NoSecrets == [LIC_MODE |-> "", ACCESS_PASSWORD |-> None]

NoGateUi == [pwd |-> "", pressed |-> FALSE]

GateIdle ==
    /\ secrets = NoSecrets
    /\ pwd_ok = FALSE
    /\ gate_ui = NoGateUi

SortIdle ==
    /\ sorted = NoCoreTable
    /\ sort_order = <<>>

LoadFresh ==
    /\ loaded = NoCoreTable
    /\ meta = NoMeta
    /\ load_error = None

LoadIdle ==
    /\ stream = NoStream
    /\ delimiter = None
    /\ LoadFresh

CoreFresh ==
    /\ clean = NoCoreTable
    /\ val = NoVal
    /\ clean2 = NoCoreTable
    /\ cat = NoSummary
    /\ desc = <<>>
    /\ SortIdle

CoreIdle ==
    /\ raw = NoCoreTable
    /\ cat_arg = <<>>
    /\ CoreFresh

Fresh ==
    /\ CoreIdle
    /\ LoadIdle
    /\ GateIdle
    /\ pc = "start"
    /\ df_after = NoTable
    /\ dtypes_after = <<>>
    /\ metrics = NoMetrics
    /\ invalid_dates_df = NoTable
    /\ error = None
    /\ written = {}
    /\ rev_col = None

\* a command-line run on the standard columns, any date policy
InitCliPolicy ==
    /\ prog = "cli"
    /\ \E p \in PolicyArgs : args = MkArgs(p, StdNames)
    /\ ui = NoUi
    /\ \E dates \in RowsUpTo(MaxRows) :
          df = [columns |-> StdColumns, rows |-> MkRows(dates)]
    /\ Fresh

\* a command-line run on any columns, with any column names on the command line
InitCliNames ==
    /\ prog = "cli"
    /\ \E p \in PolicyArgs, n \in NameArgs : args = MkArgs(p, n)
    /\ ui = NoUi
    /\ \E dates \in RowsUpTo(MaxRowsCols), c \in ColumnSets :
          df = [columns |-> c, rows |-> MkRows(dates)]
    /\ Fresh

\* a rerun of the app script with an uploaded table
InitApp ==
    /\ prog = "app"
    /\ args = NoArgs
    /\ ui \in UiSet
    /\ \E dates \in RowsUpTo(MaxRows) :
          df = [columns |-> StdColumns, rows |-> MkRows(dates)]
    /\ Fresh

Init == InitCliPolicy \/ InitCliNames \/ InitApp

----------------------------------------------------------------------------
(* mvp_ventas.main, step by step *)

\* df = cargar_csv(...); metrics = {"rows_original": len(df)}
CliCargar ==
    /\ prog = "cli" /\ pc = "start"
    /\ pc' = "loaded"
    /\ UNCHANGED <<prog, args, ui, df, df_after, metrics, invalid_dates_df, error,
                   written, rev_col>>
    /\ UNCHANGED <<coreVars, sortVars, loadVars, desc, dtypes_after, gateVars>>

\* df_after, m_date, invalid_dates_df = aplicar_politica_fecha(...)
CliPolitica ==
    /\ prog = "cli" /\ pc = "loaded"
    /\ LET r == aplicar_politica_fecha(df, args.col_fecha, args.drop_nat,
                                       args.impute_mode, args.impute_const)
       IN  IF r.raised
           THEN /\ pc' = "error"
                /\ error' = r.error
                /\ UNCHANGED <<df_after, dtypes_after, metrics, invalid_dates_df>>
           ELSE /\ pc' = "resolved"
                /\ df_after' = r.df
                /\ dtypes_after' = PolicyDtypes(r.df.columns, args.col_fecha)
                /\ metrics' = r.metrics_date
                /\ invalid_dates_df' = r.invalid_dates_df
                /\ error' = None
    /\ UNCHANGED <<prog, args, ui, df, written, rev_col>>
    /\ UNCHANGED <<coreVars, sortVars, loadVars, desc, gateVars>>

\* the revenue recalculation and metrics["rows_final"]
CliRevenue ==
    /\ prog = "cli" /\ pc = "resolved"
    /\ LET r == RevenueRecalc(df_after.columns, args.col_revenue)
       IN  /\ rev_col' = r.rev_col
           /\ df_after' = [df_after EXCEPT !.columns = r.columns]
           /\ dtypes_after' = RevenueDtypes(dtypes_after, r.columns)
    /\ pc' = "recalculated"
    /\ UNCHANGED <<prog, args, ui, df, metrics, invalid_dates_df, error, written>>
    /\ UNCHANGED <<coreVars, sortVars, loadVars, desc, gateVars>>

\* exportar_excel(df_after, ...)
CliExportarExcel ==
    /\ prog = "cli" /\ pc = "recalculated"
    /\ written' = written \cup
                    ExcelSheets(df_after.columns, invalid_dates_df, args.col_region,
                                args.col_categoria, rev_col)
    /\ dtypes_after' = ExcelDtypes(dtypes_after, rev_col)
    /\ pc' = "excel"
    /\ UNCHANGED <<prog, args, ui, df, df_after, metrics, invalid_dates_df, error, rev_col>>
    /\ UNCHANGED <<coreVars, sortVars, loadVars, desc, gateVars>>

\* exportar_pdf(df_after, ...)
CliExportarPdf ==
    /\ prog = "cli" /\ pc = "excel"
    /\ written' = written \cup {"pdf"}
    /\ pc' = "done"
    /\ UNCHANGED <<prog, args, ui, df, df_after, metrics, invalid_dates_df, error, rev_col>>
    /\ UNCHANGED <<coreVars, sortVars, loadVars, desc, dtypes_after, gateVars>>

----------------------------------------------------------------------------
(* app/app.py, one rerun of the script after the upload *)

\* the column mapping, the policy widgets and the "Handle invalid dates" block
AppPolitica ==
    /\ prog = "app" /\ pc = "start"
    /\ LET r == app_date_policy(df, ui.policy, ConstDateStr(ui.policy, ui.picked))
       IN  /\ df_after' = r.df_after
           /\ metrics' = [nat_before |-> r.invalid_count, policy |-> ui.policy,
                          impute_value_used |-> r.imputed_value]
    /\ pc' = "resolved"
    /\ UNCHANGED <<prog, args, ui, df, invalid_dates_df, error, written, rev_col>>
    /\ UNCHANGED <<coreVars, sortVars, loadVars, desc, dtypes_after, gateVars>>

\* the metrics, the summary and the export bytes behind the download buttons
AppExport ==
    /\ prog = "app" /\ pc = "resolved"
    /\ written' = written \cup {"report.xlsx", "report.pdf"}
    /\ pc' = "done"
    /\ UNCHANGED <<prog, args, ui, df, df_after, metrics, invalid_dates_df, error, rev_col>>
    /\ UNCHANGED <<coreVars, sortVars, loadVars, desc, dtypes_after, gateVars>>

Next ==
    \/ CliCargar
    \/ CliPolitica
    \/ CliRevenue
    \/ CliExportarExcel
    \/ CliExportarPdf
    \/ AppPolitica
    \/ AppExport

Spec == Init /\ [][Next]_vars

----------------------------------------------------------------------------
(* app/core/procesamiento.py: the inputs and the steps of the pipeline *)

\* the headers the first column can have in the source file
Headers1 ==
    { Name_ID, Name_Edad, Name_Ingreso, Name_Suscripcion,
      <<"Ingreso", " ", "Mensual">>,
      <<"Ingreso", "\t", "Mensual">>,
      <<" ", "Ingreso", "\n", "Mensual", " ">> }

\* the headers the second column can have
Headers2 == { Name_Categoria, <<"Segmento">> }

Cells1 == { Str("0"), Str("130"), Str("si"), NaN }

Cells2 == { Str("A"), Str("TOTAL"), NaN }

CoreRowsUpTo(n) == UNION {[1..k -> Cells1 \X Cells2] : k \in 0..n}

MkCoreRows(cs) == [i \in 1..Len(cs) |-> [index |-> i - 1, cells |-> cs[i]]]

RunIdle ==
    /\ args = NoArgs
    /\ ui = NoUi
    /\ df = NoTable
    /\ df_after = NoTable
    /\ dtypes_after = <<>>
    /\ GateIdle
    /\ metrics = NoMetrics
    /\ invalid_dates_df = NoTable
    /\ error = None
    /\ written = {}
    /\ rev_col = None

MkRaw(h1, h2, cs) ==
    [columns |-> <<h1, h2>>, dtypes |-> <<"object", "object">>, rows |-> MkCoreRows(cs)]

\* a table whose first header varies, with the standard category column
InitCoreHeaders ==
    /\ \E h1 \in Headers1, cs \in CoreRowsUpTo(MaxCoreRows) :
          raw = MkRaw(h1, Name_Categoria, cs)
    /\ cat_arg = <<>>

\* a table whose category header and col_categoria argument vary
InitCoreCategory ==
    /\ \E h2 \in Headers2, cs \in CoreRowsUpTo(MaxCoreRows) :
          raw = MkRaw(Name_Ingreso, h2, cs)
    /\ cat_arg \in {<<>>, <<"Segmento">>, <<"Region">>}

\* a table of equal rows, as long as the cap on filas_nan or one row longer
InitCoreLong ==
    /\ \E h1 \in {Name_ID, Name_Edad}, c1 \in Cells1, c2 \in Cells2, n \in {NanCap, NanCap + 1} :
          raw = MkRaw(h1, Name_Categoria, [i \in 1..n |-> <<c1, c2>>])
    /\ cat_arg = <<>>

InitCore ==
    /\ prog = "core"
    /\ pc = "start"
    /\ RunIdle
    /\ (InitCoreHeaders \/ InitCoreCategory \/ InitCoreLong)
    /\ CoreFresh
    /\ LoadIdle

\* df2, val = limpiar_y_validar(df)
CoreLimpiar ==
    /\ prog = "core" /\ pc = "start"
    /\ LET r == limpiar_y_validar(raw)
       IN  clean' = r.df /\ val' = r.val
    /\ pc' = "clean"
    /\ UNCHANGED <<prog, runVars, sortVars, loadVars, desc, dtypes_after, gateVars, raw, cat_arg, clean2, cat>>

\* limpiar_y_validar applied to the table it returned
CoreRelimpiar ==
    /\ prog = "core" /\ pc = "clean"
    /\ clean2' = limpiar_y_validar(clean).df
    /\ pc' = "recleaned"
    /\ UNCHANGED <<prog, runVars, sortVars, loadVars, desc, dtypes_after, gateVars, raw, cat_arg, clean, val, cat>>

\* cat = agrupar_por_categoria(df, col_categoria)
CoreAgrupar ==
    /\ prog = "core" /\ pc = "clean"
    /\ cat' = agrupar_por_categoria(clean, cat_arg)
    /\ pc' = "grouped"
    /\ UNCHANGED <<prog, runVars, sortVars, loadVars, desc, dtypes_after, gateVars, raw, cat_arg, clean, val, clean2>>

\* res = describir_dataframe(df)
CoreDescribir ==
    /\ prog = "core" /\ pc = "clean"
    /\ desc' = describir_dataframe(clean)
    /\ pc' = "described"
    /\ UNCHANGED <<prog, runVars, coreVars, sortVars, loadVars, dtypes_after, gateVars>>

NextCore ==
    \/ CoreLimpiar
    \/ CoreRelimpiar
    \/ CoreAgrupar
    \/ CoreDescribir

SpecCore == InitCore /\ [][NextCore]_vars

----------------------------------------------------------------------------
(* app/core/procesamiento.py: the loader *)

\* A byte of the stream is an ASCII byte ("a"), the lead byte of a two-byte
\* UTF-8 sequence ("L") or a continuation byte ("C").
RECURSIVE ValidUtf8(_)
\* bytes.decode("utf-8") does not raise
ValidUtf8(b) ==
    IF b = <<>> THEN TRUE
    ELSE IF Head(b) = "a" THEN ValidUtf8(Tail(b))
    ELSE IF Head(b) = "L" THEN Len(b) >= 2 /\ b[2] = "C" /\ ValidUtf8(Tail(Tail(b)))
    ELSE FALSE

\* stream.read(n)
read(b, n) == IF Len(b) <= n THEN b ELSE SubSeq(b, 1, n)

\* _detect_encoding(sample)
_detect_encoding(sample) ==
    IF ValidUtf8(sample) THEN "utf-8" ELSE "latin-1"

\* the delimiters csv.Sniffer is asked to choose from
Candidates == {",", ";", "|", "\t"}

\* how often a character occurs in the sampled prefix
Count(sample, ch) == Cardinality({i \in 1..Len(sample) : sample[i] = ch})

\* _sniff_delimiter(sample): the delimiter csv.Sniffer settles on, or None when
\* it raises (the outcome of the sniffer is part of the stream)
_sniff_delimiter(st) == st.sniffed

\* x or y
Or(x, y) == IF x \notin {None, ""} THEN x ELSE y

\* str.lower() of a word of a header
lower(w) ==
    CASE w = "Fecha" -> "fecha"
      [] w = "Registro" -> "registro"
      [] w = "Date" -> "date"
      [] w = "Password" -> "password"
      [] w = "PASSWORD" -> "password"
      [] OTHER -> w

\* k in c.lower(), for a header c and a word k
Contains(c, k) == \E i \in 1..Len(c) : lower(c[i]) = k

\* the columns _parsear_fechas_heuristico parses
IsDateLike(c) == \E k \in {"fecha", "date", "registro"} : Contains(c, k)

\* the columns _porcentaje_nat_fechas counts
IsFecha(c) == Contains(c, "fecha")

\* pd.to_datetime(errors="coerce", dayfirst=dayfirst) on one cell; an instant
\* is 100 * month + day.  A text whose first field is over 12 has no
\* month-first reading, one whose second field is over 12 no day-first one.
to_datetime_dayfirst(c, dayfirst) ==
    CASE c[1] = "date" -> c
      [] c = Str("05/01/2024") -> (IF dayfirst THEN Date(105) ELSE Date(501))
      [] c = Str("13/01/2024") -> (IF dayfirst THEN Date(113) ELSE NaN)
      [] c = Str("01/13/2024") -> (IF dayfirst THEN NaN ELSE Date(113))
      [] OTHER -> NaN

\* pd.read_csv(stream, sep, encoding): every column read as text
read_csv(st) ==
    [columns |-> st.columns,
     dtypes |-> [k \in 1..Len(st.columns) |-> "object"],
     rows |-> MkCoreRows(st.rows)]

\* _parsear_fechas_heuristico(df, dayfirst)
_parsear_fechas_heuristico(t, dayfirst) ==
    [columns |-> t.columns,
     dtypes |-> [k \in 1..Len(t.columns) |->
                   IF IsDateLike(t.columns[k]) THEN "datetime" ELSE t.dtypes[k]],
     rows |-> [i \in 1..Len(t.rows) |->
                 [index |-> t.rows[i].index,
                  cells |-> [k \in 1..Len(t.columns) |->
                               IF IsDateLike(t.columns[k])
                               THEN to_datetime_dayfirst(t.rows[i].cells[k], dayfirst)
                               ELSE t.rows[i].cells[k]]]]]

\* _porcentaje_nat_fechas(df): the missing fraction nat / total
_porcentaje_nat_fechas(t) ==
    LET fechas == {k \in 1..Len(t.columns) : IsFecha(t.columns[k])}
        total == Cardinality(fechas) * Len(t.rows)
        nat == Cardinality({<<i, k>> \in (1..Len(t.rows)) \X fechas :
                               IsNaN(to_datetime_dayfirst(t.rows[i].cells[k], FALSE))})
    IN  IF fechas = {} \/ total = 0 THEN Q(0, 1) ELSE Q(nat, total)

\* the fraction is over 0.4
OverThreshold(q) == 10 * q[2] > 4 * q[3]

\* a retry that parses the table of the first pass again
RetrySource_coerced(st, first) == first

\* the table the retry parses: the stream is rewound and read again
RetrySource(st, first) == read_csv(st)

\* cargar_csv(stream, delimiter)
cargar_csv(st, delim_arg) ==
    LET sample == read(st.bytes, SampleLen)
        encoding == _detect_encoding(sample)
        delim == Or(delim_arg, Or(_sniff_delimiter(st), ","))
        first == _parsear_fechas_heuristico(read_csv(st), FALSE)
        result == IF OverThreshold(_porcentaje_nat_fechas(first))
                  THEN _parsear_fechas_heuristico(RetrySource(st, first), TRUE)
                  ELSE first
    IN  IF st.bytes = <<>>
        THEN [raised |-> TRUE, error |-> "EmptyDataError", df |-> NoCoreTable, meta |-> NoMeta]
        ELSE IF encoding = "utf-8" /\ ~ValidUtf8(st.bytes)
        THEN [raised |-> TRUE, error |-> "UnicodeDecodeError", df |-> NoCoreTable, meta |-> NoMeta]
        ELSE [raised |-> FALSE, error |-> None, df |-> result,
              meta |-> [delimiter |-> delim, encoding |-> encoding]]

----------------------------------------------------------------------------
(* app/core/procesamiento.py: the inputs and the steps of the sort *)

\* the texts of a number column, of the subscription flag, of a category
\* column, and the values of a parsed date column
NumberCells == { Str("0"), Str("130"), NaN }
FlagCells == { Str("si"), Str("0"), NaN }
CategoryCells == { Str("A"), Str("B"), NaN }
DateCells == { Date(32), Date(34), NaN }

SortRowsUpTo(n, c1, c2) == UNION {[1..k -> c1 \X c2] : k \in 0..n}

\* a table of an identifier and a category: the category is the only sort key
InitSortCategory ==
    /\ \E h2 \in Headers2, cs \in SortRowsUpTo(MaxSortRows, {Str("0"), Str("130")}, CategoryCells) :
          raw = MkRaw(Name_ID, h2, cs)
    /\ cat_arg \in {<<>>, <<"Segmento">>}

\* a table of the subscription flag and the score
InitSortFlags ==
    /\ \E cs \in SortRowsUpTo(MaxSortRows, FlagCells, NumberCells) :
          raw = MkRaw(Name_Suscripcion, Name_Puntaje, cs)
    /\ cat_arg = <<>>

\* a table of the income and the registration date
InitSortDates ==
    /\ \E cs \in SortRowsUpTo(MaxSortRows, NumberCells, DateCells) :
          raw = [columns |-> <<Name_Ingreso, Name_Fecha_Registro>>,
                 dtypes |-> <<"object", "datetime">>,
                 rows |-> MkCoreRows(cs)]
    /\ cat_arg = <<>>

\* a table that has a column of the name of a temporary sort key
InitSortTemp ==
    /\ \E h1 \in {S0, S1}, cs \in SortRowsUpTo(MaxSortRows, {Str("0"), Str("130")}, {Str("A"), Str("B")}) :
          raw = MkRaw(h1, Name_Categoria, cs)
    /\ cat_arg = <<>>

InitSort ==
    /\ prog = "core"
    /\ pc = "start"
    /\ RunIdle
    /\ (InitSortCategory \/ InitSortFlags \/ InitSortDates \/ InitSortTemp)
    /\ CoreFresh
    /\ LoadIdle

\* df3 = ordenar_datos(df2, col_categoria)
CoreOrdenar ==
    /\ prog = "core" /\ pc = "clean"
    /\ \E o \in ordenar_datos(clean, cat_arg) :
          sorted' = o.df /\ sort_order' = o.order
    /\ pc' = "sorted"
    /\ UNCHANGED <<prog, runVars, loadVars, coreVars, desc, dtypes_after, gateVars>>

\* cat = agrupar_por_categoria(df3, col_categoria), on the sorted table
CoreAgruparOrdenado ==
    /\ prog = "core" /\ pc = "sorted"
    /\ cat' = agrupar_por_categoria(sorted, cat_arg)
    /\ pc' = "sorted_grouped"
    /\ UNCHANGED <<prog, runVars, sortVars, loadVars, desc, dtypes_after, gateVars,
                   raw, cat_arg, clean, val, clean2>>

NextSort ==
    \/ CoreLimpiar
    \/ CoreOrdenar
    \/ CoreDescribir
    \/ CoreAgruparOrdenado

SpecSort == InitSort /\ [][NextSort]_vars

----------------------------------------------------------------------------
(* app/core/procesamiento.py: the inputs and the step of the loader *)

SeqsUpTo(n, S) == UNION {[1..k -> S] : k \in 0..n}

\* the texts a date cell of the source file can hold
DateTexts == { Str("05/01/2024"), Str("13/01/2024"), Str("01/13/2024") }

\* a stream whose bytes vary
InitLoadBytes ==
    /\ \E b \in SeqsUpTo(MaxBytes, {"a", "L", "C"}) :
          stream = [bytes |-> b, sample |-> <<>>, sniffed |-> None,
                    columns |-> <<<<"Nombre">>>>, rows |-> <<>>]
    /\ delimiter = None

\* a stream whose delimiter characters, sniffer outcome and delimiter argument vary
InitLoadDelims ==
    /\ \E sm \in SeqsUpTo(MaxSample, {",", ";", "x"}) :
       \E sn \in {None} \cup {c \in Candidates : Count(sm, c) > 0} :
          stream = [bytes |-> <<"a">>, sample |-> sm, sniffed |-> sn,
                    columns |-> <<<<"Nombre">>>>, rows |-> <<>>]
    /\ delimiter \in {None, "", "|"}

\* a stream of one column of date texts
InitLoadDates ==
    /\ \E h \in {<<"Fecha">>, <<"order", "_", "date">>, <<"Nombre">>},
          cs \in SeqsUpTo(MaxDateRows, {<<Str("05/01/2024")>>, <<Str("13/01/2024")>>}) :
          stream = [bytes |-> <<"a">>, sample |-> <<>>, sniffed |-> None,
                    columns |-> <<h>>, rows |-> cs]
    /\ delimiter = None

\* a stream of two columns of date texts
InitLoadDatesCols ==
    /\ \E h1 \in {<<"Fecha">>, <<"Registro">>},
          h2 \in {<<"order", "_", "date">>, Name_Fecha_Registro, <<"Nombre">>},
          cs \in SeqsUpTo(MaxDateRowsCols, DateTexts \X DateTexts) :
          stream = [bytes |-> <<"a">>, sample |-> <<>>, sniffed |-> None,
                    columns |-> <<h1, h2>>, rows |-> cs]
    /\ delimiter = None

InitLoad ==
    /\ prog = "load"
    /\ pc = "start"
    /\ RunIdle
    /\ CoreIdle
    /\ (InitLoadBytes \/ InitLoadDelims \/ InitLoadDates \/ InitLoadDatesCols)
    /\ LoadFresh

\* df, meta = cargar_csv(stream, delimiter)
LoadCargar ==
    /\ prog = "load" /\ pc = "start"
    /\ LET r == cargar_csv(stream, delimiter) IN
         IF r.raised
         THEN /\ load_error' = r.error
              /\ pc' = "error"
              /\ UNCHANGED <<loaded, meta>>
         ELSE /\ loaded' = r.df
              /\ meta' = r.meta
              /\ pc' = "loaded"
              /\ UNCHANGED load_error
    /\ UNCHANGED <<prog, runVars, coreVars, sortVars, stream, delimiter, desc, dtypes_after, gateVars>>

NextLoad == LoadCargar

SpecLoad == InitLoad /\ [][NextLoad]_vars

----------------------------------------------------------------------------
(* app/app.py: the license gate *)

\* a check that accepts the empty password
PasswordAccepted_any(pwd, secret) == pwd = secret

\* pwd and pwd == st.secrets.get("ACCESS_PASSWORD")
PasswordAccepted(pwd, secret) == pwd # "" /\ pwd = secret

\* st.secrets.get("LIC_MODE", "").lower() == "password"
PasswordMode(s) == lower(s.LIC_MODE) = "password"

\* the values the deployment can give LIC_MODE ("" when it is not configured)
LicModes == {"", "off", "password", "Password", "PASSWORD"}

\* the values of ACCESS_PASSWORD (None when it is not configured)
AccessPasswords == {None, "", "secret", "hunter2"}

\* the texts a visitor can type into the password field
TypedPasswords == {"", "secret", "guess"}

\* a new session of a deployment: no flag, empty field, the script about to run
InitGate ==
    /\ prog = "gate"
    /\ pc = "ready"
    /\ args = NoArgs
    /\ ui = NoUi
    /\ df = NoTable
    /\ df_after = NoTable
    /\ dtypes_after = <<>>
    /\ metrics = NoMetrics
    /\ invalid_dates_df = NoTable
    /\ error = None
    /\ written = {}
    /\ rev_col = None
    /\ CoreIdle
    /\ LoadIdle
    /\ secrets \in [LIC_MODE : LicModes, ACCESS_PASSWORD : AccessPasswords]
    /\ pwd_ok = FALSE
    /\ gate_ui = NoGateUi

\* one run of the script down to the end of the gate: it stops at the gate
\* ("stopped"), reruns after setting the flag ("ready"), or goes on to the
\* upload, processing and export part ("main"); st.button is True only in the
\* run its click started
GateRun ==
    /\ prog = "gate" /\ pc = "ready"
    /\ IF PasswordMode(secrets) /\ ~pwd_ok
       THEN IF gate_ui.pressed /\ PasswordAccepted(gate_ui.pwd, secrets.ACCESS_PASSWORD)
            THEN pwd_ok' = TRUE /\ pc' = "ready"
            ELSE pwd_ok' = pwd_ok /\ pc' = "stopped"
       ELSE pwd_ok' = pwd_ok /\ pc' = "main"
    /\ gate_ui' = [gate_ui EXCEPT !.pressed = FALSE]
    /\ UNCHANGED <<prog, runVars, coreVars, sortVars, loadVars, desc, dtypes_after, secrets>>

\* the visitor edits the password field of the displayed gate: a rerun
GateType ==
    /\ prog = "gate" /\ pc = "stopped"
    /\ \E p \in TypedPasswords : gate_ui' = [pwd |-> p, pressed |-> FALSE]
    /\ pc' = "ready"
    /\ UNCHANGED <<prog, runVars, coreVars, sortVars, loadVars, desc, dtypes_after, secrets, pwd_ok>>

\* the visitor presses Enter on the displayed gate: a rerun
GatePress ==
    /\ prog = "gate" /\ pc = "stopped"
    /\ gate_ui' = [gate_ui EXCEPT !.pressed = TRUE]
    /\ pc' = "ready"
    /\ UNCHANGED <<prog, runVars, coreVars, sortVars, loadVars, desc, dtypes_after, secrets, pwd_ok>>

\* the visitor uses a widget of the part after the gate: a rerun
GateRerun ==
    /\ prog = "gate" /\ pc = "main"
    /\ pc' = "ready"
    /\ UNCHANGED <<prog, runVars, coreVars, sortVars, loadVars, desc, dtypes_after, gateVars>>

\* the visitor reloads the page: a new session with an empty st.session_state
GateNewSession ==
    /\ prog = "gate" /\ pc \in {"stopped", "main"}
    /\ pwd_ok' = FALSE
    /\ gate_ui' = NoGateUi
    /\ pc' = "ready"
    /\ UNCHANGED <<prog, runVars, coreVars, sortVars, loadVars, desc, dtypes_after, secrets>>

NextGate ==
    \/ GateRun
    \/ GateType
    \/ GatePress
    \/ GateRerun
    \/ GateNewSession

SpecGate == InitGate /\ [][NextGate]_vars

----------------------------------------------------------------------------
(* The date policy: what the claims speak of *)

\* the date policy has returned a table (the run went past it without raising)
Returned == pc \in {"resolved", "recalculated", "excel", "done"}

\* the positions of the input rows whose date text does not parse
MissingAt == {i \in 1..Len(df.rows) : to_datetime(df.rows[i].fecha) = NaT}

DropRequested ==
    \/ prog = "cli" /\ args.drop_nat
    \/ prog = "app" /\ ui.policy = "drop"

ImputeRequested ==
    \/ prog = "cli" /\ args.impute_mode \in {"median", "mean", "const"}
    \/ prog = "app" /\ ui.policy \in {"median", "const"}

CentralRequested ==
    \/ prog = "cli" /\ args.impute_mode \in {"median", "mean"}
    \/ prog = "app" /\ ui.policy = "median"

\* const is requested and the caller supplied no constant date
ConstWithoutValue ==
    \/ prog = "cli" /\ args.impute_mode = "const" /\ args.impute_const \in {None, ""}
    \/ prog = "app" /\ ui.policy = "const" /\ ui.picked = None

\* a column name given on the command line that is no column of the table
ReferencedAbsent ==
    /\ prog = "cli"
    /\ \/ args.col_fecha \notin df.columns
       \/ args.col_categoria \notin df.columns
       \/ args.col_region \notin df.columns
       \/ args.col_revenue # None /\ args.col_revenue \notin df.columns

\* C1: with the drop policy the rows after are the rows before minus the rows
\* whose date failed to parse; every row with a valid date is kept with its
\* parsed date, and the kept rows are in their original relative order.
C1_DropRemovesExactlyMissing ==
    (Returned /\ DropRequested) =>
        /\ Len(df_after.rows) = Len(df.rows) - Cardinality(MissingAt)
        /\ metrics.nat_before = Cardinality(MissingAt)
        /\ \A i \in (1..Len(df.rows)) \ MissingAt :
              \E j \in 1..Len(df_after.rows) :
                 df_after.rows[j] = [index |-> df.rows[i].index,
                                     fecha |-> to_datetime(df.rows[i].fecha)]
        /\ \A j, k \in 1..Len(df_after.rows) :
              j < k => df_after.rows[j].index < df_after.rows[k].index

C1_Witness ==
    /\ Returned /\ DropRequested /\ prog = "cli"
    /\ Cardinality(MissingAt) = 1
    /\ Len(df.rows) = 3
    /\ to_datetime(df.rows[2].fecha) = NaT
    /\ Len(df_after.rows) = 2

\* C2: whenever const is requested and no constant date is supplied, the run
\* is rejected with an error and produces no table and no export, in the
\* command-line run and in the app.
C2_ConstWithoutValueRejected ==
    ConstWithoutValue =>
        /\ pc \in {"start", "loaded", "error"}
        /\ df_after = NoTable
        /\ written = {}

\* C3 as claimed: no state is reachable in which an export artifact was written
\* and a column named on the command line (date, category, region or revenue
\* override) is no column of the loaded table.
C3_AnyAbsentColumnAborts ==
    ReferencedAbsent => written = {}

\* C3 as amended: a run that names a date column that is no column of the table
\* is aborted with an error before the table is transformed and writes no
\* export; an export is only ever written when the date column exists.
C3_AbsentDateColumnAborts ==
    /\ (prog = "cli" /\ args.col_fecha \notin df.columns /\ pc \notin {"start", "loaded"}) =>
          (pc = "error" /\ error # None /\ df_after = NoTable /\ written = {})
    /\ (prog = "cli" /\ written # {}) => args.col_fecha \in df.columns

C3_Witness ==
    /\ prog = "cli" /\ pc = "error"
    /\ args.col_fecha \notin df.columns
    /\ Len(df.rows) > 0
    /\ written = {}

\* C4: every run applies exactly one policy and the reported tag names it: the
\* tag is always one of drop, median, mean, const.
C4_ExactlyOnePolicy ==
    Returned =>
        metrics.policy \in {"DROP", "IMPUTE(median)", "IMPUTE(mean)", "IMPUTE(const)",
                            "drop", "median", "mean", "const"}

C6_NoValidDateIsNoError ==
    (CentralRequested /\ MissingAt = 1..Len(df.rows)
       /\ (prog = "cli" => args.col_fecha \in df.columns)
       /\ pc \notin {"start", "loaded"}) =>
        /\ pc # "error" /\ error = None
        /\ Len(df_after.rows) = Len(df.rows)
        /\ \A i \in 1..Len(df_after.rows) : df_after.rows[i].fecha = NaT
        /\ metrics.impute_value_used = Unset

C6_Witness ==
    /\ CentralRequested /\ Returned
    /\ Len(df.rows) = 2
    /\ MissingAt = {1, 2}
    /\ metrics.impute_value_used = Unset

----------------------------------------------------------------------------
(* Cleaning, validation and the category summary: what the claims speak of *)

Cleaned == prog = "core" /\ pc \in {"clean", "recleaned", "grouped"}

\* the sub-tables of the validation report
SubTables ==
    {val.duplicados_por_id.rows, val.edades_fuera.rows, val.ingresos_invalidos.rows,
     val.filas_nan.rows}

\* the row (by value) is a row of the clean table
InClean(cells) == \E j \in 1..Len(clean.rows) : clean.rows[j].cells = cells

\* C7: every row of every sub-table of the validation report is also a row of
\* the clean table returned by the same call.
C7_FlaggedRowsStayInClean ==
    Cleaned => \A sub \in SubTables : \A i \in 1..Len(sub) : InClean(sub[i].cells)

\* C8: limpiar_y_validar applied to the table it returned yields the same
\* table: the same column names, the same column types, the same rows in the
\* same order.
C8_CleaningIdempotent ==
    (prog = "core" /\ pc = "recleaned") => clean2 = clean

Grouped == prog = "core" /\ pc = "grouped" /\ ~cat.placeholder

\* the rows of the summary before its last row, and its last row
GroupRows == SubSeq(cat.rows, 1, Len(cat.rows) - 1)
LastRow == cat.rows[Len(cat.rows)]

\* the position of the category column of the clean table
CatPos == ColPos(clean.columns, ResolveCategory(clean.columns, cat_arg))

\* the category values of the clean table
CatValues == {clean.rows[i].cells[CatPos] : i \in 1..Len(clean.rows)}

RowsOfCategory(c) == {i \in 1..Len(clean.rows) : clean.rows[i].cells[CatPos] = c}

\* C9: the category summary accounts for every row exactly once: each category
\* value, the missing one included, has a group whose count is the number of
\* rows of that value; the counts sum to the TOTAL row's count and to the
\* number of rows; the percentages of a non-empty table sum to 1.
C9_SummaryAccountsForEveryRow ==
    Grouped =>
        /\ \A c \in CatValues :
              \E g \in 1..Len(GroupRows) :
                 /\ GroupRows[g].label = c
                 /\ GroupRows[g].conteo = Cardinality(RowsOfCategory(c))
        /\ SumInts([g \in 1..Len(GroupRows) |-> GroupRows[g].conteo]) = LastRow.conteo
        /\ LastRow.conteo = Len(clean.rows)
        /\ Len(clean.rows) > 0 =>
              LET p == QSum([g \in 1..Len(GroupRows) |-> GroupRows[g].porcentaje])
              IN  p[2] = p[3]

C9_Witness ==
    /\ Grouped
    /\ Len(clean.rows) = 2
    /\ CatValues = {Str("A"), NaN}
    /\ Len(GroupRows) = 2
    /\ LastRow.conteo = 2

\* C10: the summary has a percentage column and exactly one row labelled TOTAL,
\* that row is the last row, and the other rows are one per distinct category
\* value (missing counted as one value).
C10_ExactlyOneTotalRowLast ==
    Grouped =>
        /\ "porcentaje" \in cat.columns
        /\ Cardinality({g \in 1..Len(cat.rows) : cat.rows[g].label = Str("TOTAL")}) = 1
        /\ LastRow.label = Str("TOTAL")
        /\ Len(cat.rows) - 1 = Cardinality(CatValues)

----------------------------------------------------------------------------
(* The category summary without a category column *)

\* agrupar_por_categoria has returned
Summarised == prog = "core" /\ pc = "grouped"

\* neither the requested name nor the standard name is a column of the table
NoCategoryColumn ==
    /\ cat_arg = <<>> \/ \A k \in 1..Len(clean.columns) : clean.columns[k] # cat_arg
    /\ \A k \in 1..Len(clean.columns) : clean.columns[k] # Name_Categoria

\* C11: when neither the requested category column nor the standard one
\* exists, agrupar_por_categoria returns the table of the single column
\* "nota" with exactly one informational row, and no group or TOTAL row,
\* whatever the rows of the table are (none included).
C11_NoCategoryGivesPlaceholder ==
    (Summarised /\ NoCategoryColumn) =>
        /\ cat.placeholder
        /\ cat.columns = {"nota"}
        /\ Len(cat.nota) = 1
        /\ cat.rows = <<>>

\* a requested column that does not exist, on a table with rows and without
\* the standard category column
C11_Witness ==
    /\ Summarised /\ NoCategoryColumn
    /\ cat_arg # <<>>
    /\ clean.rows # <<>>
    /\ cat.placeholder

----------------------------------------------------------------------------
(* The sort: what the claims speak of *)

\* ordenar_datos has returned
Sorted == prog = "core" /\ pc = "sorted"

\* the input row that the sort put at position i of its output
InputRow(i) == clean.rows[sort_order[i]]

\* the sort keys present in the input table, in their priority
PresentKeys ==
    LET c == ResolveCategory(clean.columns, cat_arg) IN
    (IF c # <<>> THEN <<[kind |-> "category", name |-> c]>> ELSE <<>>)
    \o (IF HasCol(clean, Name_Suscripcion)
        THEN <<[kind |-> "flag", name |-> Name_Suscripcion]>> ELSE <<>>)
    \o (IF HasCol(clean, Name_Puntaje)
        THEN <<[kind |-> "score", name |-> Name_Puntaje]>> ELSE <<>>)
    \o (IF HasCol(clean, Name_Ingreso)
        THEN <<[kind |-> "income", name |-> Name_Ingreso]>> ELSE <<>>)
    \o (IF HasCol(clean, Name_Fecha_Registro)
        THEN <<[kind |-> "date", name |-> Name_Fecha_Registro]>> ELSE <<>>)

KeyCell(k, r) == Cell(clean, r, PresentKeys[k].name)

\* true before false, unknown ranked as false
FlagRank(c) == IF c = Bool(TRUE) THEN 0 ELSE 1

\* the two rows have the same value for key k
SameOnKey(k, a, b) ==
    IF PresentKeys[k].kind = "flag"
    THEN FlagRank(KeyCell(k, a)) = FlagRank(KeyCell(k, b))
    ELSE KeyCell(k, a) = KeyCell(k, b)

SameOnHigherKeys(k, a, b) == \A h \in 1..(k - 1) : SameOnKey(h, a, b)

\* row a goes strictly before row b by key k: category and date ascending,
\* score and income descending, the flag by its rank
PrecedesOnKey(k, a, b) ==
    LET x == KeyCell(k, a)
        y == KeyCell(k, b)
        kind == PresentKeys[k].kind
    IN  CASE kind = "flag" -> FlagRank(x) < FlagRank(y)
          [] kind = "category" -> ~IsNaN(x) /\ ~IsNaN(y) /\ CatRank(x) < CatRank(y)
          [] kind \in {"score", "income"} -> ~IsNaN(x) /\ ~IsNaN(y) /\ x[2] > y[2]
          [] OTHER -> ~IsNaN(x) /\ ~IsNaN(y) /\ x[2] < y[2]

\* the pairs of output positions, the earlier first
OutputPairs ==
    {<<i, j>> \in (1..Len(sort_order)) \X (1..Len(sort_order)) : i < j}

\* C12: ordenar_datos is deterministic and stable: whichever output the sort
\* of a table yields, two rows that have the same value in every sort key
\* column present in the table appear in it in the order they had in the
\* input.
C12_SortIsStable ==
    Sorted =>
        \A q \in OutputPairs :
            (\A k \in 1..Len(PresentKeys) :
                KeyCell(k, InputRow(q[1])) = KeyCell(k, InputRow(q[2])))
            => sort_order[q[1]] < sort_order[q[2]]

MissingLastOnKey(k) ==
    \A q \in OutputPairs :
        SameOnHigherKeys(k, InputRow(q[1]), InputRow(q[2]))
        => ~(IsNaN(KeyCell(k, InputRow(q[1]))) /\ ~IsNaN(KeyCell(k, InputRow(q[2]))))

\* C14 as stated: for every present key, the subscription flag included,
\* rows with the key missing come after rows with the key present among rows
\* equal on the higher keys.
C14_MissingLastOnEveryKey ==
    Sorted => \A k \in 1..Len(PresentKeys) : MissingLastOnKey(k)

\* C14: for every present key other than the subscription flag (category,
\* score, income, registration date), rows with the key missing come after
\* rows with the key present among rows equal on the higher keys, a missing
\* flag counting as false.
C14_MissingLastExceptFlag ==
    Sorted => \A k \in 1..Len(PresentKeys) :
                PresentKeys[k].kind # "flag" => MissingLastOnKey(k)

\* a missing score (descending key) moved behind a present one, and likewise a
\* missing date (ascending key)
C14_Witness ==
    /\ Sorted
    /\ Len(sort_order) = 2 /\ sort_order = <<2, 1>>
    /\ \E k \in 1..Len(PresentKeys) :
          /\ PresentKeys[k].kind = "score"
          /\ SameOnHigherKeys(k, InputRow(1), InputRow(2))
          /\ IsNaN(KeyCell(k, InputRow(2))) /\ ~IsNaN(KeyCell(k, InputRow(1)))

\* C15: ordenar_datos only reorders: the output has the columns of the input
\* and its rows are the input rows, each once, with every cell unchanged.
C15_SortOnlyReorders ==
    Sorted =>
        /\ sorted.columns = clean.columns
        /\ Len(sorted.rows) = Len(clean.rows)
        /\ \A i, j \in 1..Len(sort_order) : i # j => sort_order[i] # sort_order[j]
        /\ \A i \in 1..Len(sorted.rows) : sorted.rows[i].cells = InputRow(i).cells

----------------------------------------------------------------------------
(* The loader: what the claims speak of *)

\* cargar_csv has returned a table
LoadedOk == prog = "load" /\ pc = "loaded"

\* the date cells of the source: the cells of the columns whose name contains
\* date, fecha or registro
DateCols == {k \in 1..Len(stream.columns) : IsDateLike(stream.columns[k])}
DateCellsOf == (1..Len(stream.rows)) \X DateCols

SourceCell(ik) == stream.rows[ik[1]][ik[2]]
LoadedCell(ik) == loaded.rows[ik[1]].cells[ik[2]]

\* the date cells the month-first parse fails on
FirstPassFailures ==
    {ik \in DateCellsOf : IsNaN(to_datetime_dayfirst(SourceCell(ik), FALSE))}

\* the date cells missing in the returned table
LoadedMissing == {ik \in DateCellsOf : IsNaN(LoadedCell(ik))}

\* C16: when the month-first parse fails on 40% or more of the date values and
\* every failing value is a valid day-first date, the returned table has fewer
\* missing dates than the first pass left.
C16_RetryLowersMissing ==
    ( /\ LoadedOk
      /\ DateCellsOf # {}
      /\ 10 * Cardinality(FirstPassFailures) >= 4 * Cardinality(DateCellsOf)
      /\ \A ik \in FirstPassFailures : ~IsNaN(to_datetime_dayfirst(SourceCell(ik), TRUE)) )
    => Cardinality(LoadedMissing) < Cardinality(FirstPassFailures)

\* the pooled missing fraction of all the date cells is over the threshold
PooledOverThreshold ==
    10 * Cardinality(FirstPassFailures) > 4 * Cardinality(DateCellsOf)

RetryTaken ==
    OverThreshold(_porcentaje_nat_fechas(_parsear_fechas_heuristico(read_csv(stream), FALSE)))

\* C18: the returned table has the columns and the rows of the source, in
\* source order; a cell outside the date columns is the source text; a date
\* cell is the parse of the source text, day-first on the retry path and
\* month-first otherwise.
C18_NormalizationKeepsRows ==
    LoadedOk =>
        /\ loaded.columns = stream.columns
        /\ Len(loaded.rows) = Len(stream.rows)
        /\ \A i \in 1..Len(loaded.rows) :
              /\ loaded.rows[i].index = i - 1
              /\ \A k \in 1..Len(stream.columns) :
                    loaded.rows[i].cells[k] =
                        IF k \in DateCols
                        THEN to_datetime_dayfirst(stream.rows[i][k], RetryTaken)
                        ELSE stream.rows[i][k]

\* the retry path, with a date the first pass had coerced to missing and the
\* returned table holds
C18_Witness ==
    /\ LoadedOk
    /\ RetryTaken
    /\ \E ik \in FirstPassFailures : ~IsNaN(LoadedCell(ik))
    /\ \E k \in 1..Len(stream.columns) : k \notin DateCols

\* C19: with no delimiter supplied and an inconclusive sniff, the delimiter
\* recorded in the metadata is a candidate that occurs in the sampled prefix
\* at least as often as every other candidate.
C19_FallbackIsMostFrequent ==
    (LoadedOk /\ delimiter \in {None, ""} /\ stream.sniffed = None) =>
        /\ meta.delimiter \in Candidates
        /\ \A c \in Candidates :
              Count(stream.sample, meta.delimiter) >= Count(stream.sample, c)

\* C20: cargar_csv on a non-empty stream never raises, and records utf-8 or
\* latin-1 as the encoding it decoded the stream with.
C20_EncodingNeverFails ==
    (prog = "load" /\ pc # "start" /\ stream.bytes # <<>>) =>
        /\ load_error = None
        /\ meta.encoding \in {"utf-8", "latin-1"}

----------------------------------------------------------------------------
(* The descriptive statistics: what the claims speak of *)

\* describir_dataframe has returned
Described == prog = "core" /\ pc = "described"

\* the numeric columns of the described table
NumericCols == {k \in 1..Len(clean.columns) : clean.dtypes[k] = "number"}

\* the present values of a numeric column
ValuesOf(k) ==
    {clean.rows[i].cells[k][2] : i \in {j \in 1..Len(clean.rows) : IsNum(clean.rows[j].cells[k])}}

\* the column has values and they are all equal
ZeroVariance(k) == Cardinality(ValuesOf(k)) = 1

\* the values of the column sum to zero
ZeroMean(k) ==
    /\ ValuesOf(k) # {}
    /\ SumInts(ColumnValues(clean, k)) = 0

\* C21: for every numeric column whose values are all equal, and for every
\* numeric column whose mean is zero, describir_dataframe reports the
\* coefficient of variation as missing.
C21_ConstantColumnHasNoCv ==
    Described =>
        \A k \in NumericCols :
            (ZeroVariance(k) \/ ZeroMean(k)) => IsNaN(desc[k].cv)

----------------------------------------------------------------------------
(* The validation report: what the claims speak of *)

\* the headers of the input table as limpiar_y_validar normalises them
RawColumns == [k \in 1..Len(raw.columns) |-> NormalizeHeader(raw.columns[k])]

\* the input table has the column of that name
RawHas(name) == ColPos(RawColumns, name) # 0

\* the value of input row i in the column of that name, as a number
RawNumber(i, name) == to_numeric(raw.rows[i].cells[ColPos(RawColumns, name)])

\* the ID value of input row i occurs in another row
SharesId(i) ==
    /\ IsNum(RawNumber(i, Name_ID))
    /\ \E j \in 1..Len(raw.rows) : j # i /\ RawNumber(j, Name_ID) = RawNumber(i, Name_ID)

\* the index labels of the rows of a report entry
Reported(entry) == {entry.rows[i].index : i \in 1..Len(entry.rows)}

\* C22: the duplicate-ID entry holds exactly the rows whose ID value occurs in
\* more than one row, every occurrence included; a row whose ID is unique, or
\* that has no ID value, is not reported.
C22_DuplicateEntryIsSharedIds ==
    (Cleaned /\ RawHas(Name_ID)) =>
        Reported(val.duplicados_por_id) = {i - 1 : i \in {j \in 1..Len(raw.rows) : SharesId(j)}}

\* the cell of input row i in column k after the conversions of lines 66-75
CoercedCell(i, k) ==
    IF RawColumns[k] \in NumericNames THEN to_numeric(raw.rows[i].cells[k])
    ELSE IF RawColumns[k] = Name_Suscripcion THEN to_boolean(raw.rows[i].cells[k])
    ELSE raw.rows[i].cells[k]

\* the input rows after the conversions
CoercedRows ==
    [i \in 1..Len(raw.rows) |->
        [index |-> i - 1, cells |-> [k \in 1..Len(raw.columns) |-> CoercedCell(i, k)]]]

\* the rows the duplicate check flags: the ID cell equals that of another row
DupFlagged ==
    IF RawHas(Name_ID)
    THEN {i \in 1..Len(raw.rows) : \E j \in 1..Len(raw.rows) :
            j # i /\ RawNumber(j, Name_ID) = RawNumber(i, Name_ID)}
    ELSE {}

\* the rows the age check flags: age below 0 or above 120
AgeFlagged ==
    IF RawHas(Name_Edad)
    THEN {i \in 1..Len(raw.rows) :
            /\ IsNum(RawNumber(i, Name_Edad))
            /\ (RawNumber(i, Name_Edad)[2] < 0 \/ RawNumber(i, Name_Edad)[2] > 120)}
    ELSE {}

\* the rows the income check flags: income missing or not greater than 0
IncomeFlagged ==
    IF RawHas(Name_Ingreso)
    THEN {i \in 1..Len(raw.rows) :
            \/ IsNaN(RawNumber(i, Name_Ingreso))
            \/ RawNumber(i, Name_Ingreso)[2] <= 0}
    ELSE {}

\* the rows with a missing field
MissingFlagged ==
    {i \in 1..Len(raw.rows) : \E k \in 1..Len(raw.columns) : IsNaN(CoercedCell(i, k))}

\* the first n members of a set of row numbers
FirstOf(S, n) == {i \in S : Cardinality({j \in S : j < i}) < n}

\* the entry is OK when no row is flagged, else the sub-table of the flagged rows
EntryIs(entry, flagged) ==
    IF flagged = {} THEN entry = OK
    ELSE /\ ~entry.ok
         /\ entry.rows # <<>>
         /\ entry.rows = SelectSeq(CoercedRows, LAMBDA r : (r.index + 1) \in flagged)

\* C23: each of the four entries of the validation report is the literal OK
\* exactly when its check flags no row (in particular when its column is
\* absent), and otherwise the non-empty sub-table of exactly the flagged rows,
\* the rows with a missing field being limited to the first 50.
C23_EntryIsOkOrFlaggedRows ==
    Cleaned =>
        /\ EntryIs(val.duplicados_por_id, DupFlagged)
        /\ EntryIs(val.edades_fuera, AgeFlagged)
        /\ EntryIs(val.ingresos_invalidos, IncomeFlagged)
        /\ EntryIs(val.filas_nan, FirstOf(MissingFlagged, NanCap))
        /\ \A e \in {val.duplicados_por_id, val.edades_fuera, val.ingresos_invalidos, val.filas_nan} :
              e.ok <=> e.rows = <<>>

\* the age column is present and flags nothing, and more rows than the cap
\* have a missing field
C23_Witness ==
    /\ Cleaned
    /\ RawHas(Name_Edad)
    /\ val.edades_fuera = OK
    /\ Cardinality(MissingFlagged) > NanCap
    /\ Len(val.filas_nan.rows) = NanCap

----------------------------------------------------------------------------
(* The tables handed from stage to stage: what the claims speak of *)

\* C24: no stage modifies the table it is given: aplicar_politica_fecha leaves
\* the loaded table as it was, and each export step leaves the table it
\* received with the same columns, column types and cells, so exportar_pdf
\* sees the table exportar_excel was given.
C24_StagesKeepTheirInput ==
    [][/\ CliPolitica => df' = df
       /\ CliExportarExcel => (df_after' = df_after /\ dtypes_after' = dtypes_after)
       /\ CliExportarPdf => (df_after' = df_after /\ dtypes_after' = dtypes_after)]_vars

----------------------------------------------------------------------------
(* The category summary and the row order: what the claims speak of *)

\* agrupar_por_categoria has returned the summary of the sorted table
SortedSummarised == prog = "core" /\ pc = "sorted_grouped"

\* the clean table with its rows in the order p
Reordered(p) ==
    [clean EXCEPT !.rows = [i \in 1..Len(clean.rows) |-> clean.rows[p[i]]]]

\* some rows of the output of ordenar_datos are not where the clean table had them
RowsMoved == \E i \in 1..Len(sort_order) : sort_order[i] # i

----------------------------------------------------------------------------
(* The imputed dates: what the claims speak of *)

\* some date of the input table is valid
SomeValidDate == MissingAt # 1..Len(df.rows)

\* median or mean with a valid date to compute from, or const with a constant
ImputationApplies ==
    /\ prog = "cli"
    /\ \/ args.impute_mode \in {"median", "mean"} /\ SomeValidDate
       \/ args.impute_mode = "const" /\ args.impute_const \notin {None, ""}

\* C26: after imputation no date is missing: with median or mean when a valid
\* date exists, and with const whenever a constant is supplied, every row of
\* the returned table has a date, and every formerly missing row carries the
\* imputed value reported in the metrics.
C26_NoDateMissingAfterImputation ==
    (Returned /\ ImputationApplies) =>
        /\ \A i \in 1..Len(df_after.rows) : ~isna(df_after.rows[i].fecha)
        /\ \A i \in MissingAt : metrics.impute_value_used = Some(df_after.rows[i].fecha)

----------------------------------------------------------------------------
(* The license gate: what the claims speak of *)

\* the script is in its upload, processing and export part
PastGate == prog = "gate" /\ pc = "main"

\* this step sets the session's access flag
FlagSet == ~pwd_ok /\ pwd_ok'

\* the run was started by Enter with a non-empty password equal to the
\* configured access password
RightPasswordSubmitted ==
    /\ gate_ui.pressed
    /\ gate_ui.pwd # ""
    /\ secrets.ACCESS_PASSWORD # None
    /\ gate_ui.pwd = secrets.ACCESS_PASSWORD

\* C27: in password mode the part after the gate is reached only with the
\* session's access flag set; the flag becomes set only by submitting a
\* non-empty password equal to the configured access password; with no access
\* password configured the flag is never set.
C27_GateNeedsPassword ==
    /\ [](PastGate /\ PasswordMode(secrets) => pwd_ok)
    /\ [](secrets.ACCESS_PASSWORD = None => ~pwd_ok)
    /\ [][FlagSet => RightPasswordSubmitted]_vars

\* a session in password mode that got past the gate
C27_Witness ==
    /\ PastGate
    /\ PasswordMode(secrets)
    /\ secrets.LIC_MODE # "password"
    /\ pwd_ok
    /\ gate_ui.pwd = secrets.ACCESS_PASSWORD

====
